---- MODULE Spec2Model ----
(***************************************************************************)
(* PPTX <-> JSON transcoding of backend/app.py: parse_pptx_bytes (Forward) *)
(* and build_pptx_from_json (Reverse), with their unit and colour helpers. *)
(*                                                                         *)
(* Python values are modelled as records, one shape of record per type:    *)
(*   None        [none |-> TRUE]                                           *)
(*   float/int   [n |-> numerator, d |-> denominator]  (exact rational;    *)
(*               binary floating-point rounding is not modelled)           *)
(*   bool        [b |-> TRUE/FALSE]                                        *)
(*   str         [cs |-> <<characters>>]                                   *)
(*   dict        a function from key strings to values                     *)
(* A call that raises yields [raise |-> <exception type>].                 *)
(***************************************************************************)
EXTENDS Integers, Sequences, FiniteSets, TLC

VARIABLES
  pc,           \* position in the call(s) being executed
  graph,        \* presentation_data handed to build_pptx_from_json
  prs,          \* the document build_pptx_from_json is constructing
  built,        \* what build_pptx_from_json produced: bytes, an exception, or nothing yet
  pptx_bytes,   \* the bytes handed to parse_pptx_bytes
  result,       \* parse_pptx_bytes: the dict under construction
  slide_data,   \* parse_pptx_bytes: the slide under construction
  idx,          \* position in the slide loop (zero-based)
  sidx,         \* position in the shape loop (zero-based)
  ret,          \* what parse_pptx_bytes returned, or nothing yet
  hex_color,    \* hex_to_rgb: the argument
  rgb,          \* hex_to_rgb: the outcome
  px_value,     \* pixels_to_emu: the argument
  px_emu,       \* pixels_to_emu: the outcome
  request,      \* save_presentation: request.presentation, with the fields the caller set
  response      \* save_presentation: the response, or nothing yet

vars == <<pc, graph, prs, built, pptx_bytes, result, slide_data, idx, sidx, ret, hex_color, rgb, px_value, px_emu, request, response>>

----------------------------------------------------------------------------
(* Python values *)

None == [none |-> TRUE]
Str(chars) == [cs |-> chars]
Bool(v) == [b |-> v]
Raise(e) == [raise |-> e]
Nothing == [nothing |-> TRUE]

IsNone(v) == DOMAIN v = {"none"}
IsStr(v) == DOMAIN v = {"cs"}
IsBool(v) == DOMAIN v = {"b"}
IsNum(v) == DOMAIN v = {"n", "d"}
IsRaise(v) == DOMAIN v = {"raise"}

Abs(k) == IF k < 0 THEN -k ELSE k

RECURSIVE GCD(_, _)
GCD(a, b) == IF b = 0 THEN a ELSE GCD(b, a % b)

\* the rational n/d in lowest terms with a positive denominator
Q(n, d) ==
  LET g == GCD(Abs(n), Abs(d))
      s == IF d < 0 THEN -1 ELSE 1
  IN [n |-> (s * n) \div g, d |-> (s * d) \div g]

Whole(k) == [n |-> k, d |-> 1]
QMul(a, b) == Q(a.n * b.n, a.d * b.d)
QDiv(a, b) == Q(a.n * b.d, a.d * b.n)
QLe(a, b) == a.n * b.d <= b.n * a.d
QMax(a, b) == IF QLe(a, b) THEN b ELSE a

\* Python's int(x) on a float: truncation toward zero
Trunc(q) == IF q.n >= 0 THEN q.n \div q.d ELSE -((-q.n) \div q.d)

\* bool(v)
Truthy(v) ==
  CASE IsNone(v) -> FALSE
    [] IsBool(v) -> v.b
    [] IsNum(v) -> v.n # 0
    [] IsStr(v) -> v.cs # <<>>
    [] OTHER -> TRUE

\* a bool is a number in arithmetic
Arith(v) == IF IsBool(v) THEN Whole(IF v.b THEN 1 ELSE 0) ELSE v
IsArith(v) == IsNum(v) \/ IsBool(v)

\* dict.get(key, default)
Get(d, key, default) == IF key \in DOMAIN d THEN d[key] ELSE default

----------------------------------------------------------------------------
(* Unit/colour utilities *)

PIXELS_PER_INCH == 96
EMU_PER_INCH == 914400

\* a Length of the document: an integer number of EMU
Length(emu) == [emu |-> emu]
IsLength(v) == DOMAIN v = {"emu"}
\* pptx.util.Pt(points): 12700 EMU per point, truncated to an integer
Pt(points) == Length(Trunc(QMul(points, Whole(12700))))
\* Length.pt
PtOf(len) == Q(len.emu, 12700)
\* the document stores font sizes and absolute line spacings in hundredths of a
\* point (127 EMU), truncating the Length assigned
Stored(len) == Length((len.emu \div 127) * 127)

\* a member of one of the document's enumerations (PP_ALIGN, MSO_ANCHOR, ...)
Enum(member) == [enum |-> member]

\* emu is a Length, or None for a dimension the shape does not define
emu_to_pixels(emu) ==
  IF ~IsLength(emu) THEN Raise("TypeError")
  ELSE Q(emu.emu * PIXELS_PER_INCH, EMU_PER_INCH)

pixels_to_emu(pixels) ==
  IF ~IsArith(pixels) THEN Raise("TypeError")
  ELSE Whole(Trunc(QMul(Q(Arith(pixels).n, Arith(pixels).d * PIXELS_PER_INCH), Whole(EMU_PER_INCH))))

HexChars == <<"0", "1", "2", "3", "4", "5", "6", "7", "8", "9", "a", "b", "c", "d", "e", "f">>
UpperHex == <<"A", "B", "C", "D", "E", "F">>
Whitespace == {" ", "\t", "\n"}

IsHexDigit(c) == (\E k \in 1..16 : HexChars[k] = c) \/ (\E k \in 1..6 : UpperHex[k] = c)

HexVal(c) ==
  IF \E k \in 1..16 : HexChars[k] = c
  THEN (CHOOSE k \in 1..16 : HexChars[k] = c) - 1
  ELSE (CHOOSE k \in 1..6 : UpperHex[k] = c) + 9

\* f"{v:02x}"
Hex02(v) == <<HexChars[(v \div 16) + 1], HexChars[(v % 16) + 1]>>

\* int(s, 16) for a two-character slice s: two digits, a sign and a digit, or a
\* digit with surrounding whitespace; anything else raises ValueError
Int16(s) ==
  CASE IsHexDigit(s[1]) /\ IsHexDigit(s[2]) -> Whole(16 * HexVal(s[1]) + HexVal(s[2]))
    [] s[1] = "+" /\ IsHexDigit(s[2]) -> Whole(HexVal(s[2]))
    [] s[1] = "-" /\ IsHexDigit(s[2]) -> Whole(-HexVal(s[2]))
    [] s[1] \in Whitespace /\ IsHexDigit(s[2]) -> Whole(HexVal(s[2]))
    [] IsHexDigit(s[1]) /\ s[2] \in Whitespace -> Whole(HexVal(s[1]))
    [] OTHER -> Raise("ValueError")

\* s.lstrip("#")
RECURSIVE LStripHash(_)
LStripHash(s) == IF s # <<>> /\ Head(s) = "#" THEN LStripHash(Tail(s)) ELSE s

\* a colour object of the document: no colour set, a solid RGB, or a theme reference
NoColor == [kind |-> "none"]
ThemeColor == [kind |-> "theme"]
RGBColor(r, g, b) == [kind |-> "rgb", rgb |-> <<r, g, b>>]

rgb_to_hex(obj) ==
  IF obj = None THEN None
  ELSE IF obj.kind = "rgb"
       THEN Str(<<"#">> \o Hex02(obj.rgb[1]) \o Hex02(obj.rgb[2]) \o Hex02(obj.rgb[3]))
       ELSE None

\* a tuple (r, g, b)
Triple(r, g, b) == [rgb |-> <<r, g, b>>]

hex_to_rgb(hex) ==
  IF ~Truthy(hex) THEN Triple(255, 255, 255)
  ELSE IF ~IsStr(hex) THEN Raise("AttributeError")
  ELSE LET h == LStripHash(hex.cs)
           r == Int16(SubSeq(h, 1, 2))
           g == Int16(SubSeq(h, 3, 4))
           b == Int16(SubSeq(h, 5, 6))
       IN IF Len(h) # 6 THEN Triple(255, 255, 255)
          ELSE IF IsNum(r) /\ IsNum(g) /\ IsNum(b) THEN Triple(r.n, g.n, b.n)
          ELSE Raise("ValueError")

\* str constants of the scene graph
S_rect == Str(<<"r", "e", "c", "t">>)
S_text == Str(<<"t", "e", "x", "t">>)
S_left == Str(<<"l", "e", "f", "t">>)
S_center == Str(<<"c", "e", "n", "t", "e", "r">>)
S_right == Str(<<"r", "i", "g", "h", "t">>)
S_justify == Str(<<"j", "u", "s", "t", "i", "f", "y">>)
S_top == Str(<<"t", "o", "p">>)
S_middle == Str(<<"m", "i", "d", "d", "l", "e">>)
S_bottom == Str(<<"b", "o", "t", "t", "o", "m">>)
S_normal == Str(<<"n", "o", "r", "m", "a", "l">>)
S_bold == Str(<<"b", "o", "l", "d">>)
S_italic == Str(<<"i", "t", "a", "l", "i", "c">>)
S_white == Str(<<"#", "f", "f", "f", "f", "f", "f">>)
S_slate900 == Str(<<"#", "0", "f", "1", "7", "2", "a">>)
S_slate800 == Str(<<"#", "1", "e", "2", "9", "3", "b">>)

\* a fill of the document: type None (inherited), SOLID, or another kind; only a
\* solid fill has a foreground colour, on any other kind fill.fore_color raises
Fill(type, color) == [type |-> type, color |-> color]
NoFill == Fill(None, NoColor)
SolidFill(color) == Fill(Enum("SOLID"), color)
fore_color(fill) == IF fill.type = Enum("SOLID") THEN fill.color ELSE Raise("TypeError")

get_background_color(slide) ==
  LET fill == slide.background
  IN IF fill.type # None /\ ~IsRaise(fore_color(fill)) /\ rgb_to_hex(fore_color(fill)) # None
     THEN rgb_to_hex(fore_color(fill))
     ELSE S_slate900

get_text_alignment(alignment) ==
  CASE alignment = None -> S_left
    [] alignment = Enum("CENTER") -> S_center
    [] alignment = Enum("RIGHT") -> S_right
    [] alignment = Enum("JUSTIFY") -> S_justify
    [] OTHER -> S_left

get_vertical_alignment(anchor) ==
  CASE anchor = None -> S_top
    [] anchor = Enum("MIDDLE") -> S_middle
    [] anchor = Enum("BOTTOM") -> S_bottom
    [] OTHER -> S_top

----------------------------------------------------------------------------
(* The document's objects, as the transcoders read and write them *)

Font(size, name, color, bold, italic) ==
  [size |-> size, name |-> name, color |-> color, bold |-> bold, italic |-> italic]
NoFont == Font(None, None, NoColor, None, None)
Run(text, font) == [text |-> text, font |-> font]
Paragraph(runs, font, alignment, line_spacing) ==
  [runs |-> runs, font |-> font, alignment |-> alignment, line_spacing |-> line_spacing]
Margins(l, r, t, b) == [left |-> l, right |-> r, top |-> t, bottom |-> b]
\* the margins of a text frame that sets none: 0.1 inch at the sides, 0.05 inch above and below
DefaultMargins == Margins(Length(91440), Length(91440), Length(45720), Length(45720))
TextFrame(paragraphs, margins, vertical_anchor, word_wrap) ==
  [paragraphs |-> paragraphs, margins |-> margins,
   vertical_anchor |-> vertical_anchor, word_wrap |-> word_wrap]

\* paragraph.text: the text of its runs
RECURSIVE ParaText(_)
ParaText(runs) == IF runs = <<>> THEN <<>> ELSE Head(runs).text \o ParaText(Tail(runs))

\* text_frame.text: "\n".join of the paragraphs' text
RECURSIVE JoinParas(_)
JoinParas(paras) ==
  IF paras = <<>> THEN <<>>
  ELSE IF Len(paras) = 1 THEN ParaText(paras[1].runs)
  ELSE ParaText(paras[1].runs) \o <<"\n">> \o JoinParas(Tail(paras))

RECURSIVE LStrip(_)
LStrip(s) == IF s # <<>> /\ Head(s) \in Whitespace THEN LStrip(Tail(s)) ELSE s
RECURSIVE RStrip(_)
RStrip(s) == IF s # <<>> /\ s[Len(s)] \in Whitespace THEN RStrip(SubSeq(s, 1, Len(s) - 1)) ELSE s
\* str.strip()
Strip(s) == RStrip(LStrip(s))

\* str(n) for n >= 0
RECURSIVE Digits(_)
Digits(k) == IF k < 10 THEN <<HexChars[k + 1]>> ELSE Digits(k \div 10) \o <<HexChars[(k % 10) + 1]>>

IsDigit(c) == \E k \in 1..10 : HexChars[k] = c
RECURSIVE DigitsVal(_)
DigitsVal(s) == IF s = <<>> THEN 0 ELSE 10 * DigitsVal(SubSeq(s, 1, Len(s) - 1)) + HexVal(s[Len(s)])

\* float(v); of a str, only plain digit strings are modelled as numeric
Float(v) ==
  CASE IsArith(v) -> Arith(v)
    [] IsStr(v) -> IF v.cs # <<>> /\ (\A k \in 1..Len(v.cs) : IsDigit(v.cs[k]))
                   THEN Whole(DigitsVal(v.cs))
                   ELSE Raise("ValueError")
    [] OTHER -> Raise("TypeError")

safe_float(v, default) == IF IsRaise(Float(v)) THEN default ELSE Float(v)

----------------------------------------------------------------------------
(* Forward transcoder: parse_shape *)

font_to_style(font) ==
  LET size == IF font.size # None THEN [fontSize |-> PtOf(font.size)] ELSE <<>>
      name == IF Truthy(font.name) THEN [fontFamily |-> font.name] ELSE <<>>
      color == IF Truthy(rgb_to_hex(font.color)) THEN [fill |-> rgb_to_hex(font.color)] ELSE <<>>
      bold == Truthy(font.bold)
      italic == Truthy(font.italic)
      style == CASE bold /\ italic -> Str(S_bold.cs \o <<" ">> \o S_italic.cs)
                 [] bold /\ ~italic -> S_bold
                 [] ~bold /\ italic -> S_italic
                 [] OTHER -> S_normal
  IN size @@ name @@ color @@ [fontStyle |-> style]

\* (mutant) a paragraph font that sets anything takes precedence over the run
style_font_paragraph_first(para) ==
  IF para.runs # <<>> /\ para.font = NoFont THEN para.runs[1].font ELSE para.font

\* the font the style of a text shape is read from
style_font(para) == IF para.runs # <<>> THEN para.runs[1].font ELSE para.font

line_height(para, fontSize) ==
  LET ls == para.line_spacing
      fs == IF Truthy(fontSize) THEN fontSize ELSE Whole(16)
  IN IF ls = None THEN Q(11, 10)
     ELSE IF IsLength(ls) THEN QMax(Whole(1), QDiv(safe_float(PtOf(ls), fs), fs))
     ELSE QMax(Whole(1), safe_float(ls, Q(11, 10)))

shape_base(shape) ==
  [id |-> Str(Digits(shape.shape_id)),
   name |-> shape.name,
   x |-> emu_to_pixels(shape.left),
   y |-> emu_to_pixels(shape.top),
   width |-> emu_to_pixels(shape.width),
   height |-> emu_to_pixels(shape.height),
   type |-> S_rect,
   draggable |-> Bool(TRUE)]

\* (mutant) the text is tested without being stripped
has_text_unstripped(shape) ==
  /\ shape.has_text_frame
  /\ shape.text_frame # None
  /\ JoinParas(shape.text_frame.paragraphs) # <<>>

\* the shape has a text frame whose stripped text is not empty
has_text(shape) ==
  /\ shape.has_text_frame
  /\ shape.text_frame # None
  /\ Strip(JoinParas(shape.text_frame.paragraphs)) # <<>>

parse_text(shape) ==
  LET tf == shape.text_frame
      para == tf.paragraphs[1]
      style == font_to_style(style_font(para))
      fontSize == Get(style, "fontSize", Whole(16))
      family == IF "fontFamily" \in DOMAIN style THEN [fontFamily |-> style.fontFamily] ELSE <<>>
  IN [type |-> S_text,
      text |-> Str(JoinParas(tf.paragraphs)),
      padding |-> [left |-> emu_to_pixels(tf.margins.left),
                   right |-> emu_to_pixels(tf.margins.right),
                   top |-> emu_to_pixels(tf.margins.top),
                   bottom |-> emu_to_pixels(tf.margins.bottom)],
      vAlign |-> get_vertical_alignment(tf.vertical_anchor),
      wrap |-> Bool(Truthy(tf.word_wrap)),
      align |-> get_text_alignment(para.alignment),
      fontSize |-> fontSize,
      fill |-> Get(style, "fill", S_white),
      fontStyle |-> Get(style, "fontStyle", S_normal),
      lineHeight |-> line_height(para, fontSize)]
     @@ family @@ shape_base(shape)

parse_rect(shape) ==
  LET fill == shape.fill
      color == IF fill.type # None /\ ~IsRaise(fore_color(fill))
               THEN rgb_to_hex(fore_color(fill)) ELSE None
  IN [type |-> S_rect, fill |-> IF Truthy(color) THEN color ELSE S_slate800]
     @@ shape_base(shape)

\* (mutant) every shape without text is a rect, whatever its kind
parse_shape_any_rect(shape) ==
  IF \E k \in {"x", "y", "width", "height"} : IsRaise(shape_base(shape)[k]) THEN None
  ELSE IF has_text(shape) THEN parse_text(shape)
  ELSE [type |-> S_rect, fill |-> S_slate800] @@ shape_base(shape)

\* None for a shape that is dropped: an unsupported kind, or one whose parsing raised
parse_shape(shape) ==
  IF \E k \in {"x", "y", "width", "height"} : IsRaise(shape_base(shape)[k]) THEN None
  ELSE IF has_text(shape) THEN parse_text(shape)
  ELSE IF shape.shape_type = Enum("AUTO_SHAPE") THEN parse_rect(shape)
  ELSE None

----------------------------------------------------------------------------
(* Reverse transcoder: the body of build_pptx_from_json's shape loop *)

\* RGBColor(r, g, b) accepts only byte values
rgb_color(t) ==
  IF IsRaise(t) THEN t
  ELSE IF \A k \in 1..3 : t.rgb[k] \in 0..255 THEN RGBColor(t.rgb[1], t.rgb[2], t.rgb[3])
  ELSE Raise("ValueError")

\* needle in haystack, for str operands
IsSubstr(needle, haystack) ==
  \E k \in 1..(Len(haystack) - Len(needle) + 1) : SubSeq(haystack, k, k + Len(needle) - 1) = needle

\* the first exception among the values of a sequence of steps, or Nothing
RECURSIVE FirstRaise(_)
FirstRaise(steps) ==
  IF steps = <<>> THEN Nothing
  ELSE IF IsRaise(Head(steps)) THEN Head(steps) ELSE FirstRaise(Tail(steps))

NativeShape(shape_id, name, box, shape_type, text_frame, fill) ==
  [shape_id |-> shape_id, name |-> name,
   left |-> box[1], top |-> box[2], width |-> box[3], height |-> box[4],
   shape_type |-> shape_type, has_text_frame |-> text_frame # None,
   text_frame |-> text_frame, fill |-> fill]

\* (mutant) a position or size that is no number counts as its default
shape_box_lenient(shape_data) ==
  <<pixels_to_emu(safe_float(Get(shape_data, "x", Whole(0)), Whole(0))),
    pixels_to_emu(safe_float(Get(shape_data, "y", Whole(0)), Whole(0))),
    pixels_to_emu(safe_float(Get(shape_data, "width", Whole(100)), Whole(100))),
    pixels_to_emu(safe_float(Get(shape_data, "height", Whole(50)), Whole(50)))>>

\* x, y, w, h of a shape in EMU, each an int or an exception
shape_box(shape_data) ==
  <<pixels_to_emu(Get(shape_data, "x", Whole(0))),
    pixels_to_emu(Get(shape_data, "y", Whole(0))),
    pixels_to_emu(Get(shape_data, "width", Whole(100))),
    pixels_to_emu(Get(shape_data, "height", Whole(50)))>>

LengthBox(box) == [k \in 1..4 |-> Length(box[k].n)]

\* the text frame of a new auto-shape: one empty centred paragraph, anchored in the middle
AutoShapeFrame ==
  TextFrame(<<Paragraph(<<>>, NoFont, Enum("CENTER"), None)>>, DefaultMargins, Enum("MIDDLE"), None)

build_rect(shape_data, shape_id) ==
  LET color == rgb_color(hex_to_rgb(Get(shape_data, "fill", S_slate800)))
  IN IF IsRaise(color) THEN color
     ELSE NativeShape(shape_id, Str(<<"Rectangle ">> \o Digits(shape_id - 1)),
                      LengthBox(shape_box(shape_data)), Enum("AUTO_SHAPE"),
                      AutoShapeFrame, SolidFill(color))

\* the four margin assignments inside one try: the first that raises ends them,
\* the margins assigned before it are kept and the others stay as they were
build_margins(shape_data) ==
  LET padding == Get(shape_data, "padding", None)
      pad == IF Truthy(padding) THEN padding ELSE <<>>
      isdict == ~(IsStr(pad) \/ IsNum(pad) \/ IsBool(pad))
      emu(key) == pixels_to_emu(Get(pad, key, Whole(0)))
      ok1 == isdict /\ ~IsRaise(emu("left"))
      ok2 == ok1 /\ ~IsRaise(emu("right"))
      ok3 == ok2 /\ ~IsRaise(emu("top"))
      ok4 == ok3 /\ ~IsRaise(emu("bottom"))
  IN Margins(IF ok1 THEN Length(emu("left").n) ELSE DefaultMargins.left,
             IF ok2 THEN Length(emu("right").n) ELSE DefaultMargins.right,
             IF ok3 THEN Length(emu("top").n) ELSE DefaultMargins.top,
             IF ok4 THEN Length(emu("bottom").n) ELSE DefaultMargins.bottom)

build_anchor(v_align) ==
  CASE v_align = S_middle -> Enum("MIDDLE")
    [] v_align = S_bottom -> Enum("BOTTOM")
    [] OTHER -> Enum("TOP")

build_alignment(align) ==
  CASE align = S_center -> Enum("CENTER")
    [] align = S_right -> Enum("RIGHT")
    [] align = S_justify -> Enum("JUSTIFY")
    [] OTHER -> Enum("LEFT")

\* p.font.size = Pt(font_size): the document holds 1 to 4000 points
build_font_size(font_size) ==
  IF IsRaise(font_size) THEN font_size
  ELSE IF Stored(Pt(font_size)).emu \div 127 \in 100..400000 THEN Stored(Pt(font_size))
  ELSE Raise("ValueError")

\* (mutant) the multiplier is not clamped to 1.0
build_line_spacing_unclamped(shape_data, font_size) ==
  LET lh == Float(Get(shape_data, "lineHeight", Q(11, 10)))
      spacing == Stored(Pt(QMul(lh, font_size)))
  IN IF IsRaise(lh) THEN None
     ELSE IF spacing.emu \div 127 \in 0..158400 THEN spacing
     ELSE None

\* the line spacing left on the paragraph by the try around its assignment:
\* None when float() or the assignment raised (the document holds 0 to 1584 points)
build_line_spacing(shape_data, font_size) ==
  LET lh == Float(Get(shape_data, "lineHeight", Q(11, 10)))
      spacing == Stored(Pt(QMul(QMax(Whole(1), lh), font_size)))
  IN IF IsRaise(lh) THEN None
     ELSE IF spacing.emu \div 127 \in 0..158400 THEN spacing
     ELSE None

\* font.bold / font.italic from fontStyle
build_flag(word, font_style) ==
  IF IsStr(font_style) THEN Bool(IsSubstr(word.cs, font_style.cs)) ELSE Raise("TypeError")

build_text(shape_data, shape_id) ==
  LET text == Get(shape_data, "text", Str(<<>>))
      ptext == IF IsStr(text) THEN text ELSE Raise("TypeError")
      font_size == Float(Get(shape_data, "fontSize", Whole(16)))
      size == build_font_size(font_size)
      font_family == Get(shape_data, "fontFamily", None)
      name == IF ~Truthy(font_family) THEN None
              ELSE IF IsStr(font_family) THEN font_family ELSE Raise("TypeError")
      color == rgb_color(hex_to_rgb(Get(shape_data, "fill", S_white)))
      font_style == Get(shape_data, "fontStyle", S_normal)
      bold == build_flag(S_bold, font_style)
      italic == build_flag(S_italic, font_style)
      failed == FirstRaise(<<ptext, font_size, size, name, color, bold, italic>>)
      runs == IF text.cs = <<>> THEN <<>> ELSE <<Run(text.cs, NoFont)>>
      para == Paragraph(runs, Font(size, name, color, bold, italic),
                        build_alignment(Get(shape_data, "align", S_left)),
                        build_line_spacing(shape_data, font_size))
  IN IF failed # Nothing THEN failed
     ELSE NativeShape(shape_id, Str(<<"TextBox ">> \o Digits(shape_id - 1)),
                      LengthBox(shape_box(shape_data)), Enum("TEXT_BOX"),
                      TextFrame(<<para>>, build_margins(shape_data),
                                build_anchor(Get(shape_data, "vAlign", S_top)),
                                Bool(Truthy(Get(shape_data, "wrap", Bool(TRUE))))),
                      NoFill)

\* one pass of the shape loop: the shape added to the slide, Nothing when the type
\* is neither "rect" nor "text", or the exception that ends the build
build_shape(shape_data, shape_id) ==
  LET shape_type == Get(shape_data, "type", S_rect)
  IN IF FirstRaise(shape_box(shape_data)) # Nothing THEN FirstRaise(shape_box(shape_data))
     ELSE IF shape_type = S_rect THEN build_rect(shape_data, shape_id)
     ELSE IF shape_type = S_text THEN build_text(shape_data, shape_id)
     ELSE Nothing

----------------------------------------------------------------------------
(* Reverse transcoder: build_pptx_from_json, one action per step of its loops *)

\* the bytes of a saved document, and bytes that are no document
Bytes(document) == [document |-> document]
Garbage == [garbage |-> TRUE]

\* prs.slide_width = ...: the document holds 1 to 56 inches
slide_size(px) ==
  IF IsRaise(px) THEN px
  ELSE IF pixels_to_emu(px).n \in 914400..51206400 THEN Length(pixels_to_emu(px).n)
  ELSE Raise("ValueError")

\* an exception leaves build_pptx_from_json: nothing is returned
BuildFails(e) ==
  /\ built' = e
  /\ prs' = Nothing
  /\ pc' = "done"
  /\ UNCHANGED <<idx, sidx, pptx_bytes>>

BuildStart ==
  /\ pc = "build"
  /\ LET width == slide_size(Float(Get(graph, "width", Whole(1280))))
         height == slide_size(Float(Get(graph, "height", Whole(720))))
         failed == FirstRaise(<<width, height>>)
     IN IF failed # Nothing THEN BuildFails(failed)
        ELSE /\ prs' = [slide_width |-> width, slide_height |-> height, slides |-> <<>>]
             /\ idx' = 0
             /\ pc' = "build_slides"
             /\ UNCHANGED <<built, sidx, pptx_bytes>>
  /\ UNCHANGED <<graph, result, slide_data, ret, hex_color, rgb, px_value, px_emu, request, response>>

BuildSlide ==
  /\ pc = "build_slides"
  /\ idx < Len(Get(graph, "slides", <<>>))
  /\ LET slide == graph.slides[idx + 1]
         color == rgb_color(hex_to_rgb(Get(slide, "backgroundColor", S_slate900)))
     IN IF IsRaise(color) THEN BuildFails(color)
        ELSE /\ prs' = [prs EXCEPT !.slides =
                          Append(@, [background |-> SolidFill(color), shapes |-> <<>>, broken |-> FALSE])]
             /\ sidx' = 0
             /\ pc' = "build_shapes"
             /\ UNCHANGED <<built, idx, pptx_bytes>>
  /\ UNCHANGED <<graph, result, slide_data, ret, hex_color, rgb, px_value, px_emu, request, response>>

BuildShape ==
  /\ pc = "build_shapes"
  /\ sidx < Len(Get(graph.slides[idx + 1], "shapes", <<>>))
  /\ LET shape_data == graph.slides[idx + 1].shapes[sidx + 1]
         made == build_shape(shape_data, 2 + Len(prs.slides[idx + 1].shapes))
     IN IF IsRaise(made) THEN BuildFails(made)
        ELSE /\ prs' = IF made = Nothing THEN prs
                       ELSE [prs EXCEPT !.slides[idx + 1].shapes = Append(@, made)]
             /\ sidx' = sidx + 1
             /\ UNCHANGED <<built, idx, pc, pptx_bytes>>
  /\ UNCHANGED <<graph, result, slide_data, ret, hex_color, rgb, px_value, px_emu, request, response>>

BuildSlideEnd ==
  /\ pc = "build_shapes"
  /\ sidx = Len(Get(graph.slides[idx + 1], "shapes", <<>>))
  /\ idx' = idx + 1
  /\ pc' = "build_slides"
  /\ UNCHANGED <<graph, prs, built, pptx_bytes, result, slide_data, sidx, ret, hex_color, rgb, px_value, px_emu, request, response>>

\* prs.save(buffer) and the return of the bytes; the bytes then go to parse_pptx_bytes
BuildSave ==
  /\ pc = "build_slides"
  /\ idx = Len(Get(graph, "slides", <<>>))
  /\ built' = Bytes(prs)
  /\ pptx_bytes' = Bytes(prs)
  /\ pc' = "parse"
  /\ UNCHANGED <<graph, prs, result, slide_data, idx, sidx, ret, hex_color, rgb, px_value, px_emu, request, response>>

----------------------------------------------------------------------------
(* Forward transcoder: parse_pptx_bytes, one action per step of its loops *)

\* str(e): the message of the exception, one opaque piece of text
ErrorText(e) == Str(<<e.raise>>)

\* (mutant) the except branch returns the slides parsed before the failure
error_result_keeping(e) ==
  [error |-> ErrorText(e), slides |-> IF result = Nothing THEN <<>> ELSE result.slides,
   width |-> Whole(1280), height |-> Whole(720)]

\* the value of the except branch
error_result(e) ==
  [error |-> ErrorText(e), slides |-> <<>>, width |-> Whole(1280), height |-> Whole(720)]

\* the except branch: whatever was parsed so far is dropped
ParseFails(e) ==
  /\ ret' = error_result(e)
  /\ pc' = "done"
  /\ UNCHANGED <<result, slide_data, idx, sidx>>

ParseOpen ==
  /\ pc = "parse"
  /\ IF pptx_bytes = Garbage THEN ParseFails(Raise("BadZipFile"))
     ELSE LET document == pptx_bytes.document
              width == emu_to_pixels(document.slide_width)
              height == emu_to_pixels(document.slide_height)
              failed == FirstRaise(<<width, height>>)
          IN IF failed # Nothing THEN ParseFails(failed)
             ELSE /\ result' = [width |-> width, height |-> height, slides |-> <<>>]
                  /\ idx' = 0
                  /\ pc' = "parse_slides"
                  /\ UNCHANGED <<slide_data, sidx, ret>>
  /\ UNCHANGED <<graph, prs, built, pptx_bytes, hex_color, rgb, px_value, px_emu, request, response>>

\* (mutant) the id is made from the zero-based index
slide_id_zero_based(k) == Str(<<"s", "l", "i", "d", "e", "-">> \o Digits(k))

\* f"slide-{idx+1}"
slide_id(k) == Str(<<"s", "l", "i", "d", "e", "-">> \o Digits(k + 1))

ParseSlide ==
  /\ pc = "parse_slides"
  /\ idx < Len(pptx_bytes.document.slides)
  /\ LET slide == pptx_bytes.document.slides[idx + 1]
     IN /\ slide_data' = [id |-> slide_id(idx),
                          index |-> Whole(idx),
                          backgroundColor |-> get_background_color(slide),
                          shapes |-> <<>>]
        /\ sidx' = 0
        /\ pc' = "parse_shapes"
        /\ UNCHANGED <<result, idx, ret>>
  /\ UNCHANGED <<graph, prs, built, pptx_bytes, hex_color, rgb, px_value, px_emu, request, response>>

\* slide.shapes cannot be walked: the exception reaches the outer except
ParseSlideBroken ==
  /\ pc = "parse_shapes"
  /\ pptx_bytes.document.slides[idx + 1].broken
  /\ ParseFails(Raise("KeyError"))
  /\ UNCHANGED <<graph, prs, built, pptx_bytes, hex_color, rgb, px_value, px_emu, request, response>>

\* (mutant) a shape that is dropped takes the shapes before it along
append_parsed_clearing(shapes, parsed) == IF Truthy(parsed) THEN Append(shapes, parsed) ELSE <<>>

\* the list slide_data["shapes"] after one pass of the shape loop
append_parsed(shapes, parsed) == IF Truthy(parsed) THEN Append(shapes, parsed) ELSE shapes

ParseShape ==
  /\ pc = "parse_shapes"
  /\ ~pptx_bytes.document.slides[idx + 1].broken
  /\ sidx < Len(pptx_bytes.document.slides[idx + 1].shapes)
  /\ LET shape == pptx_bytes.document.slides[idx + 1].shapes[sidx + 1]
     IN slide_data' = [slide_data EXCEPT !.shapes = append_parsed(@, parse_shape(shape))]
  /\ sidx' = sidx + 1
  /\ UNCHANGED <<graph, prs, built, pptx_bytes, result, idx, pc, ret, hex_color, rgb, px_value, px_emu, request, response>>

ParseSlideEnd ==
  /\ pc = "parse_shapes"
  /\ ~pptx_bytes.document.slides[idx + 1].broken
  /\ sidx = Len(pptx_bytes.document.slides[idx + 1].shapes)
  /\ result' = [result EXCEPT !.slides = Append(@, slide_data)]
  /\ idx' = idx + 1
  /\ pc' = "parse_slides"
  /\ UNCHANGED <<graph, prs, built, pptx_bytes, slide_data, sidx, ret, hex_color, rgb, px_value, px_emu, request, response>>

ParseReturn ==
  /\ pc = "parse_slides"
  /\ idx = Len(pptx_bytes.document.slides)
  /\ ret' = result
  /\ pc' = "done"
  /\ UNCHANGED <<graph, prs, built, pptx_bytes, result, slide_data, idx, sidx, hex_color, rgb, px_value, px_emu, request, response>>

----------------------------------------------------------------------------
(* hex_to_rgb as a call of its own *)

CallHexToRgb ==
  /\ pc = "hex"
  /\ rgb' = hex_to_rgb(hex_color)
  /\ pc' = "done"
  /\ UNCHANGED <<graph, prs, built, pptx_bytes, result, slide_data, idx, sidx, ret, hex_color, px_value, px_emu, request, response>>

(* pixels_to_emu as a call of its own *)

CallPixelsToEmu ==
  /\ pc = "px"
  /\ px_emu' = pixels_to_emu(px_value)
  /\ pc' = "done"
  /\ UNCHANGED <<graph, prs, built, pptx_bytes, result, slide_data, idx, sidx, ret, hex_color, rgb, px_value, request, response>>

----------------------------------------------------------------------------
(* The save endpoint: model_dump of the request, build_pptx_from_json, response *)

\* the fields of PaddingData, ShapeData, SlideData and PresentationData
PaddingFields == {"left", "right", "top", "bottom"}
ShapeFields ==
  {"id", "name", "x", "y", "width", "height", "type", "text", "fontSize", "fontFamily", "fill",
   "fontStyle", "align", "vAlign", "lineHeight", "wrap", "padding", "draggable"}

\* model_dump(): a dict with every field of the model, a field the caller left
\* out holding its declared default
dump_padding(pad) == [k \in PaddingFields |-> Get(pad, k, Whole(0))]

dump_shape(sh) ==
  [k \in ShapeFields |->
     IF k \in DOMAIN sh
     THEN (IF k = "padding" /\ sh[k] # None THEN dump_padding(sh[k]) ELSE sh[k])
     ELSE IF k \in {"wrap", "draggable"} THEN Bool(TRUE) ELSE None]

dump_slide(sl) ==
  [id |-> sl.id, index |-> sl.index, backgroundColor |-> sl.backgroundColor,
   shapes |-> [j \in 1..Len(sl.shapes) |-> dump_shape(sl.shapes[j])]]

model_dump(presentation) ==
  [width |-> presentation.width, height |-> presentation.height,
   slides |-> [i \in 1..Len(presentation.slides) |-> dump_slide(presentation.slides[i])],
   error |-> Get(presentation, "error", None)]

\* request.presentation.model_dump() goes to build_pptx_from_json
SavePresentation ==
  /\ pc = "save"
  /\ graph' = model_dump(request)
  /\ pc' = "build"
  /\ UNCHANGED <<prs, built, pptx_bytes, result, slide_data, idx, sidx, ret, hex_color, rgb,
                 px_value, px_emu, request, response>>

\* the bytes go back base64-encoded; an exception becomes an HTTP 500 with its text
SaveRespond ==
  /\ request # Nothing /\ response = Nothing /\ built # Nothing
  /\ response' = IF IsRaise(built) THEN [status_code |-> 500, detail |-> ErrorText(built)]
                  ELSE [pptx_base64 |-> built, success |-> TRUE]
  /\ pc' = "done"
  /\ UNCHANGED <<graph, prs, built, pptx_bytes, result, slide_data, idx, sidx, ret, hex_color, rgb,
                 px_value, px_emu, request>>

----------------------------------------------------------------------------
(* Inputs *)

MaxSlides == 2      \* slides of a document or scene graph
MaxShapes == 3      \* shapes of a document or scene graph, over all its slides
MaxHexLen == 6      \* characters of a colour string after an optional leading '#'
MaxPixels == 12     \* magnitude of the numerator of a pixel value

SeqsUpTo(S, n) == UNION {[1..k -> S] : k \in 0..n}

\* the sequences of at most `slides` slides, each a sequence of shapes of S, that
\* hold at most `shapes` shapes together
RECURSIVE Layouts(_, _, _)
Layouts(S, slides, shapes) ==
  IF slides = 0 THEN {<<>>}
  ELSE {<<>>} \cup UNION {{<<first>> \o rest : rest \in Layouts(S, slides - 1, shapes - Len(first))}
                          : first \in SeqsUpTo(S, shapes)}

T_Hello == <<"H", "e", "l", "l", "o">>
T_Q3 == <<"Q", "3", " ", "R", "e", "v", "e", "n", "u", "e">>
T_padded == <<" ", "H", "i", " ">>
T_blank == <<" ", "\t">>
C_112233 == Str(<<"#", "1", "1", "2", "2", "3", "3">>)
C_aabbcc == Str(<<"#", "a", "a", "b", "b", "c", "c">>)
S_abc == Str(<<"a", "b", "c">>)
S_bold_italic == Str(S_bold.cs \o <<" ">> \o S_italic.cs)
ZeroPadding == [left |-> Whole(0), right |-> Whole(0), top |-> Whole(0), bottom |-> Whole(0)]

\* the shapes of the round-trip scenario
G_rect ==
  [id |-> Str(<<"r">>), type |-> S_rect, x |-> Whole(10), y |-> Whole(20),
   width |-> Whole(100), height |-> Whole(50), fill |-> C_aabbcc]
G_text ==
  [id |-> Str(<<"t">>), type |-> S_text, x |-> Whole(10), y |-> Whole(80),
   width |-> Whole(200), height |-> Whole(40), text |-> Str(T_Hello), align |-> S_center,
   fontSize |-> Whole(18), fill |-> S_white, fontStyle |-> S_normal, lineHeight |-> Whole(1),
   wrap |-> Bool(TRUE), vAlign |-> S_middle, padding |-> ZeroPadding]

\* text shapes that differ in style
StyleShapes ==
  {[G_text EXCEPT !.fontSize = fs, !.lineHeight = lh, !.fontStyle = st, !.fill = f] :
     fs \in {Whole(16), Whole(18), Whole(20), Q(21, 2), Q(31, 3)},
     lh \in {Whole(1), Q(13, 10), Q(11, 10), Q(1, 2)},
     st \in {S_normal, S_bold, S_italic, S_bold_italic},
     f \in {S_white, C_aabbcc}}

\* text shapes that differ in layout
LayoutShapes ==
  {[G_text EXCEPT !.fontSize = Whole(16), !.align = a, !.vAlign = v, !.wrap = w, !.text = Str(t),
                  !.x = x, !.padding = p] :
     a \in {S_left, S_center, S_right, S_justify},
     v \in {S_top, S_middle, S_bottom},
     w \in {Bool(TRUE), Bool(FALSE)},
     t \in {T_Hello, T_padded},
     x \in {Whole(10), Q(21, 2), Q(1, 10000)},
     p \in {ZeroPadding, [ZeroPadding EXCEPT !.left = Whole(4), !.top = Q(5, 2)]}}

\* rect shapes
RectShapes ==
  {[G_rect EXCEPT !.fill = f, !.width = w] :
     f \in {C_aabbcc, S_slate800, S_white}, w \in {Whole(100), Q(201, 2)}}

\* shapes with a value of the wrong type, a malformed value, or a key left out
OddShapes ==
  {[G_text EXCEPT ![k] = v] :
     k \in {"x", "height", "fontSize", "lineHeight", "fill", "fontStyle", "text", "padding",
            "align", "vAlign", "wrap", "type"},
     v \in {S_abc, None}}
  \cup {[G_text EXCEPT !.padding[k] = v] : k \in {"left", "right", "top", "bottom"}, v \in {S_abc, None}}
  \cup {[G_text EXCEPT !.lineHeight = Whole(2000)], [G_text EXCEPT !.fontSize = Whole(0)],
        [G_text EXCEPT !.fill = Str(<<"#", "a", "b", "c">>)],
        [G_text EXCEPT !.fill = Str(<<"z", "z", "z", "z", "z", "z">>)],
        [G_rect EXCEPT !.y = S_abc], [G_rect EXCEPT !.fill = None],
        [G_rect EXCEPT !.fill = Str(<<"-", "1", "0", "0", "0", "0">>)]}
  \cup {[k \in DOMAIN G_text \ {out} |-> G_text[k]] : out \in DOMAIN G_text \ {"id"}}

Slide(k, bg, shapes) ==
  [id |-> Str(<<"s">> \o Digits(k)), index |-> Whole(k - 1), backgroundColor |-> bg, shapes |-> shapes]

Graph(slides) == [width |-> Whole(1280), height |-> Whole(720), slides |-> slides]

\* scene graphs of several slides and shapes; slide k has the background #0k0k0k
Grey(k) == Str(<<"#">> \o Hex02(k) \o Hex02(k) \o Hex02(k))
GraphPalette == {G_rect, G_text, [G_rect EXCEPT !.type = S_abc], [G_rect EXCEPT !.x = S_abc]}
StructGraphs ==
  {Graph([k \in 1..Len(layout) |-> Slide(k, Grey(k), layout[k])]) :
     layout \in Layouts(GraphPalette, MaxSlides, MaxShapes)}


\* scene graphs of one slide and one shape
DetailGraphs ==
  {Graph(<<Slide(1, C_112233, <<sh>>)>>) :
     sh \in StyleShapes \cup LayoutShapes \cup RectShapes \cup OddShapes}

\* scene graphs that differ above the shapes
OddGraphs ==
  {Graph(<<Slide(1, bg, <<G_rect>>)>>) :
     bg \in {Str(<<"#", "A", "A", "B", "B", "C", "C">>), Str(<<"#", "1", "2">>),
             Str(<<"z", "z", "z", "z", "z", "z">>), None}}
  \cup {[Graph(<<>>) EXCEPT !.width = w] : w \in {S_abc, None, Whole(50)}}
  \cup {[k \in {"slides"} |-> <<Slide(1, C_112233, <<G_text>>)>>]}

Graphs == StructGraphs \cup DetailGraphs \cup OddGraphs

----------------------------------------------------------------------------
(* Source documents that build_pptx_from_json did not write *)

Arial == Str(<<"Arial">>)
Red == RGBColor(255, 0, 0)
Blue == RGBColor(0, 0, 255)

Fonts ==
  {NoFont,
   Font(Pt(Whole(14)), Arial, Red, Bool(TRUE), None),
   Font(Pt(Whole(12)), None, Blue, None, Bool(TRUE)),
   Font(None, None, ThemeColor, Bool(FALSE), Bool(FALSE))}

LineSpacings == {None, Pt(Whole(26)), Pt(Whole(10)), Q(3, 2), Q(4, 5)}

Box == <<Length(95250), Length(190500), Length(952500), Length(476250)>>

\* a paragraph after the first
TailParagraph == Paragraph(<<Run(T_padded, NoFont)>>, NoFont, None, None)

\* text frames that differ in the first paragraph's runs, fonts and spacing
StyleFrames ==
  {TextFrame(<<Paragraph(runs, pf, None, ls)>> \o tail, DefaultMargins, None, None) :
     runs \in {<<>>} \cup {<<Run(T_Q3, rf)>> : rf \in Fonts}
              \cup {<<Run(T_Q3, Font(Pt(Whole(14)), None, Red, None, None)), Run(T_Hello, NoFont)>>},
     pf \in Fonts, ls \in LineSpacings, tail \in {<<>>, <<TailParagraph>>}}

\* text frames that differ in layout
LayoutFrames ==
  {TextFrame(<<Paragraph(<<Run(t, NoFont)>>, NoFont, al, None)>>, mg, an, ww) :
     t \in {T_Q3, T_padded, T_blank},
     al \in {None, Enum("LEFT"), Enum("CENTER"), Enum("RIGHT"), Enum("JUSTIFY"), Enum("DISTRIBUTE")},
     mg \in {DefaultMargins, Margins(Length(0), Length(9525), Length(0), Length(0))},
     an \in {None, Enum("TOP"), Enum("MIDDLE"), Enum("BOTTOM")},
     ww \in {None, Bool(TRUE), Bool(FALSE)}}

Fills == {NoFill, SolidFill(Red), SolidFill(ThemeColor), Fill(Enum("GRADIENT"), NoColor)}

\* shapes that carry a text frame: text boxes, auto-shapes, placeholders
FramedShapes ==
  {NativeShape(7, Str(<<"Title 1">>), Box, st, tf, fill) :
     st \in {Enum("TEXT_BOX"), Enum("AUTO_SHAPE"), Enum("PLACEHOLDER")},
     tf \in StyleFrames \cup LayoutFrames,
     fill \in {NoFill}}
  \cup {NativeShape(8, Str(<<"Card">>), Box, Enum("AUTO_SHAPE"), AutoShapeFrame, fill) : fill \in Fills}

\* shapes without a text frame: pictures, charts, groups, connectors
FramelessShapes ==
  {NativeShape(9, Str(<<"Picture 1">>), Box, st, None, NoFill) :
     st \in {Enum("PICTURE"), Enum("CHART"), Enum("GROUP"), Enum("LINE")}}

N_picture == NativeShape(2, Str(<<"Picture 1">>), Box, Enum("PICTURE"), None, NoFill)
N_auto == NativeShape(3, Str(<<"Card">>), Box, Enum("AUTO_SHAPE"), AutoShapeFrame, SolidFill(Red))
N_textbox ==
  NativeShape(4, Str(<<"TextBox 3">>), Box, Enum("TEXT_BOX"),
              TextFrame(<<Paragraph(<<Run(T_Q3, NoFont)>>, NoFont, None, None)>>, DefaultMargins, None, None),
              NoFill)
\* a placeholder that takes its position from the layout: shape.left is None
N_inherits == [N_textbox EXCEPT !.shape_id = 5, !.shape_type = Enum("PLACEHOLDER"), !.left = None]

NativeSlide(bg, shapes, broken) == [background |-> bg, shapes |-> shapes, broken |-> broken]
Document(slides) == [slide_width |-> Length(12192000), slide_height |-> Length(6858000), slides |-> slides]

SourcePalette == {N_picture, N_auto, N_textbox, N_inherits}

\* the slides of a layout, each either walked as it is or broken
RECURSIVE BrokenChoices(_)
BrokenChoices(layout) ==
  IF layout = <<>> THEN {<<>>}
  ELSE {<<NativeSlide(NoFill, Head(layout), b)>> \o rest :
          b \in IF Head(layout) = <<>> THEN BOOLEAN ELSE {FALSE},
          rest \in BrokenChoices(Tail(layout))}

StructSources ==
  UNION {{Document(slides) : slides \in BrokenChoices(layout)}
         : layout \in Layouts(SourcePalette, MaxSlides, MaxShapes)}

DetailSources ==
  {Document(<<NativeSlide(bg, <<sh>>, FALSE)>>) :
     sh \in FramedShapes \cup FramelessShapes, bg \in {NoFill}}
  \cup {Document(<<NativeSlide(bg, <<>>, FALSE)>>) : bg \in Fills}
  \cup {[Document(<<>>) EXCEPT !.slide_width = None]}

Sources == {Bytes(document) : document \in StructSources \cup DetailSources} \cup {Garbage}

HexAlphabet == {"#", "a", "F", "g", "+"}
HexInputs ==
  {Str(prefix \o body) : prefix \in {<<>>, <<"#">>}, body \in SeqsUpTo(HexAlphabet, MaxHexLen)}
  \cup {None}

----------------------------------------------------------------------------
(* Specifications *)

InitBuild ==
  /\ pc = "build"
  /\ graph \in Graphs
  /\ pptx_bytes = Nothing

InitParse ==
  /\ pc = "parse"
  /\ graph = Nothing
  /\ pptx_bytes \in Sources

Init ==
  /\ InitBuild \/ InitParse
  /\ prs = Nothing /\ built = Nothing /\ result = Nothing /\ slide_data = Nothing
  /\ idx = 0 /\ sidx = 0 /\ ret = Nothing
  /\ hex_color = Nothing /\ rgb = Nothing
  /\ px_value = Nothing /\ px_emu = Nothing
  /\ request = Nothing /\ response = Nothing

Next ==
  \/ BuildStart \/ BuildSlide \/ BuildShape \/ BuildSlideEnd \/ BuildSave
  \/ ParseOpen \/ ParseSlide \/ ParseSlideBroken \/ ParseShape \/ ParseSlideEnd \/ ParseReturn

Spec == Init /\ [][Next]_vars

InitHex ==
  /\ pc = "hex"
  /\ hex_color \in HexInputs
  /\ rgb = Nothing
  /\ graph = Nothing /\ pptx_bytes = Nothing
  /\ prs = Nothing /\ built = Nothing /\ result = Nothing /\ slide_data = Nothing
  /\ idx = 0 /\ sidx = 0 /\ ret = Nothing
  /\ px_value = Nothing /\ px_emu = Nothing
  /\ request = Nothing /\ response = Nothing

NextHex == CallHexToRgb

SpecHex == InitHex /\ [][NextHex]_vars

\* pixel values: whole, and with halves, quarters, tenths and hundredths
PixelInputs == {Q(n, d) : n \in -MaxPixels..MaxPixels, d \in {1, 2, 4, 10, 100}}

InitPx ==
  /\ pc = "px"
  /\ px_value \in PixelInputs
  /\ px_emu = Nothing
  /\ hex_color = Nothing /\ rgb = Nothing
  /\ graph = Nothing /\ pptx_bytes = Nothing
  /\ prs = Nothing /\ built = Nothing /\ result = Nothing /\ slide_data = Nothing
  /\ idx = 0 /\ sidx = 0 /\ ret = Nothing
  /\ request = Nothing /\ response = Nothing

NextPx == CallPixelsToEmu

SpecPx == InitPx /\ [][NextPx]_vars

\* a request shape without the fields of O
Omit(sh, O) == [k \in DOMAIN sh \ O |-> sh[k]]

\* the optional fields of ShapeData that the text shape of the scenario sets
TextOptional == {"text", "fontSize", "fill", "fontStyle", "align", "vAlign", "lineHeight", "padding"}

\* requests of one shape that leaves out any of its optional fields, and requests
\* of several slides and shapes
SavePalette ==
  {Omit(G_rect, {"fill"}), G_text, Omit(G_text, {"align", "vAlign", "lineHeight", "padding"})}
Requests ==
  {Graph(<<Slide(1, C_112233, <<sh>>)>>) :
     sh \in {Omit(G_text, O) : O \in SUBSET TextOptional} \cup {G_rect, Omit(G_rect, {"fill"})}}
  \cup {Graph([k \in 1..Len(layout) |-> Slide(k, Grey(k), layout[k])]) :
          layout \in Layouts(SavePalette, MaxSlides, MaxShapes)}

InitSave ==
  /\ pc = "save"
  /\ request \in Requests
  /\ response = Nothing
  /\ graph = Nothing /\ pptx_bytes = Nothing
  /\ prs = Nothing /\ built = Nothing /\ result = Nothing /\ slide_data = Nothing
  /\ idx = 0 /\ sidx = 0 /\ ret = Nothing
  /\ hex_color = Nothing /\ rgb = Nothing
  /\ px_value = Nothing /\ px_emu = Nothing

NextSave ==
  \/ SavePresentation
  \/ BuildStart \/ BuildSlide \/ BuildShape \/ BuildSlideEnd \/ BuildSave
  \/ SaveRespond

SpecSave == InitSave /\ [][NextSave]_vars

----------------------------------------------------------------------------
(* Vocabulary of the properties *)

\* |a - b| <= tol, for rationals
Near(a, b, tol) == Abs(a.n * b.d - b.n * a.d) * tol.d <= tol.n * a.d * b.d

LowerHexDigits == {HexChars[k] : k \in 1..16}
IsCanonicalHex(v) ==
  IsStr(v) /\ Len(v.cs) = 7 /\ v.cs[1] = "#" /\ \A k \in 2..7 : v.cs[k] \in LowerHexDigits

IsBlank(chars) == \A k \in 1..Len(chars) : chars[k] \in Whitespace

TextKeys ==
  {"type", "x", "y", "width", "height", "text", "align", "fontSize", "fill", "fontStyle",
   "lineHeight", "wrap", "vAlign", "padding"}

\* a shape of the data model: a rect, or a text shape with non-blank text, every
\* field present and of its documented type and range
WellFormedShape(sh) ==
  /\ {"type", "x", "y", "width", "height", "fill"} \subseteq DOMAIN sh
  /\ sh.type \in {S_rect, S_text}
  /\ \A k \in {"x", "y", "width", "height"} : IsNum(sh[k]) /\ sh[k].n >= 0
  /\ IsCanonicalHex(sh.fill)
  /\ sh.type = S_text =>
       /\ TextKeys \subseteq DOMAIN sh
       /\ IsStr(sh.text) /\ ~IsBlank(sh.text.cs)
       /\ sh.align \in {S_left, S_center, S_right, S_justify}
       /\ sh.vAlign \in {S_top, S_middle, S_bottom}
       /\ IsBool(sh.wrap)
       /\ IsNum(sh.fontSize) /\ QLe(Whole(1), sh.fontSize)
       /\ sh.fontStyle \in {S_normal, S_bold, S_italic, S_bold_italic}
       /\ IsNum(sh.lineHeight) /\ QLe(Whole(1), sh.lineHeight)
       /\ DOMAIN sh.padding = {"left", "right", "top", "bottom"}
       /\ \A k \in DOMAIN sh.padding : IsNum(sh.padding[k])

WellFormedGraph(g) ==
  /\ DOMAIN g = {"width", "height", "slides"}
  /\ IsNum(g.width) /\ IsNum(g.height)
  /\ QLe(Whole(96), g.width) /\ QLe(Whole(96), g.height)
  /\ \A i \in 1..Len(g.slides) :
       /\ IsCanonicalHex(g.slides[i].backgroundColor)
       /\ \A j \in 1..Len(g.slides[i].shapes) : WellFormedShape(g.slides[i].shapes[j])

\* the emitted shape agrees with the one the document was built from
Agrees(orig, got) ==
  /\ got.type = orig.type
  /\ \A k \in {"x", "y", "width", "height"} : Near(got[k], orig[k], Whole(1))
  /\ got.fill = orig.fill
  /\ orig.type = S_text =>
       /\ got.text = orig.text
       /\ got.align = orig.align /\ got.vAlign = orig.vAlign /\ got.wrap = orig.wrap
       /\ Near(got.fontSize, orig.fontSize, Q(1, 1000))
       /\ got.fontStyle = orig.fontStyle
       /\ Near(got.lineHeight, orig.lineHeight, Q(1, 1000))

Returned == pc = "done" /\ ret # Nothing
ReturnedSlides == Returned /\ "error" \notin DOMAIN ret
SourceSlides == pptx_bytes.document.slides

----------------------------------------------------------------------------
(* C1 *)

\* C1: Reverse then Forward gives back the scene graph: for every graph of rect
\* shapes and text shapes with non-blank text, the parsed result of the built
\* document has the same slides and shapes in the same order, each shape agreeing
\* on type, position and size (within a pixel), colours and text (exactly), align,
\* vAlign, wrap, fontStyle, and fontSize and lineHeight (within 1e-3).
C1_RoundTrip ==
  (pc = "done" /\ graph # Nothing /\ WellFormedGraph(graph)) =>
    /\ ReturnedSlides
    /\ Len(ret.slides) = Len(graph.slides)
    /\ \A i \in 1..Len(graph.slides) :
         /\ ret.slides[i].backgroundColor = graph.slides[i].backgroundColor
         /\ Len(ret.slides[i].shapes) = Len(graph.slides[i].shapes)
         /\ \A j \in 1..Len(graph.slides[i].shapes) :
              Agrees(graph.slides[i].shapes[j], ret.slides[i].shapes[j])

----------------------------------------------------------------------------
(* C2 *)

\* opening the bytes or walking the document fails somewhere
Unwalkable(bytes) ==
  \/ bytes = Garbage
  \/ ~IsLength(bytes.document.slide_width)
  \/ ~IsLength(bytes.document.slide_height)
  \/ \E i \in 1..Len(bytes.document.slides) : bytes.document.slides[i].broken

\* C2: parse_pptx_bytes always returns; when opening or walking the document fails
\* it returns an object with a non-empty error string, no slides (none of those
\* parsed before the failure), width 1280 and height 720.
C2_ErrorFallback ==
  /\ (pc = "done" /\ pptx_bytes # Nothing) => ret # Nothing
  /\ (Returned /\ Unwalkable(pptx_bytes)) =>
       /\ DOMAIN ret = {"error", "slides", "width", "height"}
       /\ IsStr(ret.error) /\ ret.error.cs # <<>>
       /\ ret.slides = <<>>
       /\ ret.width = Whole(1280) /\ ret.height = Whole(720)

\* a slide had been parsed when the walk failed, and the error object was returned
C2_Witness ==
  /\ Returned /\ "error" \in DOMAIN ret
  /\ result # Nothing /\ Len(result.slides) >= 1 /\ result.slides[1].shapes # <<>>

----------------------------------------------------------------------------
(* C3 *)

HasRegion(sh) == sh.has_text_frame /\ sh.text_frame # None
RegionText(sh) == JoinParas(sh.text_frame.paragraphs)
Positioned(sh) == \A k \in {"left", "top", "width", "height"} : IsLength(sh[k])

\* the decimal numeral of a shape id below 10
Numeral(k) == Str(<<<<"0", "1", "2", "3", "4", "5", "6", "7", "8", "9">>[k + 1]>>)

\* the shapes slide i of the result holds for source shape sh
Entries(i, sh) == SelectSeq(ret.slides[i].shapes, LAMBDA e : e.id = Numeral(sh.shape_id))

AllEntries(i, sh, P(_)) == \A n \in 1..Len(Entries(i, sh)) : P(Entries(i, sh)[n])

\* C3 as stated: a shape of any kind whose text region holds only whitespace
\* produces no Shape, and a shape whose text region has non-blank text produces a
\* text Shape with exactly the region's text.
C3_AsStated ==
  ReturnedSlides =>
    \A i \in 1..Len(SourceSlides) : \A j \in 1..Len(SourceSlides[i].shapes) :
      LET sh == SourceSlides[i].shapes[j]
      IN HasRegion(sh) =>
           IF IsBlank(RegionText(sh)) THEN Entries(i, sh) = <<>>
           ELSE /\ Entries(i, sh) # <<>>
                /\ AllEntries(i, sh, LAMBDA e : e.type = S_text /\ e.text = Str(RegionText(sh)))

\* C3 (amended): a shape whose text region holds only whitespace produces no text
\* Shape: it produces a rect Shape when it is an auto-shape whose parsing does not
\* fail, and no Shape otherwise; a shape whose text region has non-blank text and
\* whose parsing does not fail produces a text Shape whose text is exactly the
\* region's text, surrounding whitespace included.
C3_TextRegions ==
  ReturnedSlides =>
    \A i \in 1..Len(SourceSlides) : \A j \in 1..Len(SourceSlides[i].shapes) :
      LET sh == SourceSlides[i].shapes[j]
      IN HasRegion(sh) =>
           CASE ~Positioned(sh) -> Entries(i, sh) = <<>>
             [] Positioned(sh) /\ ~IsBlank(RegionText(sh)) ->
                  /\ Entries(i, sh) # <<>>
                  /\ AllEntries(i, sh, LAMBDA e : e.type = S_text /\ e.text = Str(RegionText(sh)))
             [] Positioned(sh) /\ IsBlank(RegionText(sh)) /\ sh.shape_type = Enum("AUTO_SHAPE") ->
                  /\ Entries(i, sh) # <<>>
                  /\ AllEntries(i, sh, LAMBDA e : e.type = S_rect /\ "text" \notin DOMAIN e)
             [] OTHER -> Entries(i, sh) = <<>>

\* a text box holding only whitespace was parsed and dropped
C3_Witness ==
  /\ ReturnedSlides /\ Len(SourceSlides) = 1 /\ Len(SourceSlides[1].shapes) = 1
  /\ SourceSlides[1].shapes[1].shape_type = Enum("TEXT_BOX")
  /\ HasRegion(SourceSlides[1].shapes[1])
  /\ RegionText(SourceSlides[1].shapes[1]) = T_blank
  /\ ret.slides[1].shapes = <<>>

----------------------------------------------------------------------------
(* C4 *)

\* C4: hex_to_rgb never fails: when the string after the leading '#' is not
\* exactly six hex digits it returns (255, 255, 255), otherwise the three bytes.
C4_HexLenient ==
  (pc = "done" /\ hex_color # Nothing /\ IsStr(hex_color)) =>
    LET body == LStripHash(hex_color.cs)
        byte(k) == 16 * HexVal(body[k]) + HexVal(body[k + 1])
    IN IF Len(body) = 6 /\ \A k \in 1..6 : IsHexDigit(body[k])
       THEN rgb = Triple(byte(1), byte(3), byte(5))
       ELSE rgb = Triple(255, 255, 255)

----------------------------------------------------------------------------
(* C5 *)

GraphSlides == Get(graph, "slides", <<>>)
Built == graph # Nothing /\ built # Nothing

\* build_pptx_from_json returned a document with a slide for every entry, or raised
AllOrNothing ==
  Built =>
    \/ IsRaise(built) /\ prs = Nothing /\ pptx_bytes = Nothing /\ pc = "done"
    \/ built = Bytes(prs) /\ Len(prs.slides) = Len(GraphSlides)

BadNumber(d, k) == k \in DOMAIN d /\ ~IsArith(d[k])
BadPosition(sh) == \E k \in {"x", "y", "width", "height"} : BadNumber(sh, k)
IsPadding(v) == DOMAIN v = {"left", "right", "top", "bottom"}
BadMargin(sh) ==
  /\ Get(sh, "type", S_rect) = S_text /\ "padding" \in DOMAIN sh /\ IsPadding(sh.padding)
  /\ \E k \in DOMAIN sh.padding : BadNumber(sh.padding, k)
BadLineHeight(sh) == Get(sh, "type", S_rect) = S_text /\ BadNumber(sh, "lineHeight")

MarginOrder == <<"left", "right", "top", "bottom">>

\* a lone text shape that is well formed but for its margins and lineHeight
OnlySoftFaults(g) ==
  /\ DOMAIN g = {"width", "height", "slides"}
  /\ Len(g.slides) = 1 /\ Len(g.slides[1].shapes) = 1
  /\ LET sh == g.slides[1].shapes[1]
     IN /\ TextKeys \subseteq DOMAIN sh /\ sh.type = S_text /\ IsPadding(sh.padding)
        /\ WellFormedGraph([g EXCEPT !.slides[1].shapes[1].padding = ZeroPadding,
                                     !.slides[1].shapes[1].lineHeight = Whole(1)])

----------------------------------------------------------------------------
(* C6 *)

\* the shape is one Forward emits: it has non-blank text or is an auto-shape
Supported(sh) ==
  (HasRegion(sh) /\ ~IsBlank(RegionText(sh))) \/ sh.shape_type = Enum("AUTO_SHAPE")

\* the results, in order, of the shapes that parse without failure and are supported
RECURSIVE Survivors(_)
Survivors(shapes) ==
  IF shapes = <<>> THEN <<>>
  ELSE (IF Positioned(Head(shapes)) /\ Supported(Head(shapes))
        THEN <<parse_shape(Head(shapes))>> ELSE <<>>) \o Survivors(Tail(shapes))

\* C6: a failure while parsing one shape drops only that shape: the slide's shapes
\* are exactly the in-order results of the shapes that parse and are supported,
\* the slide is still emitted, and later shapes and slides are still processed.
C6_Isolation ==
  /\ (Returned /\ ~Unwalkable(pptx_bytes)) =>
       /\ "error" \notin DOMAIN ret
       /\ Len(ret.slides) = Len(SourceSlides)
       /\ \A i \in 1..Len(SourceSlides) : ret.slides[i].shapes = Survivors(SourceSlides[i].shapes)
  /\ pc = "parse_shapes" =>
       slide_data.shapes = Survivors(SubSeq(SourceSlides[idx + 1].shapes, 1, sidx))

\* a shape failed between two that parsed, and a later slide was parsed too
C6_Witness ==
  /\ ReturnedSlides /\ Len(SourceSlides) = 2
  /\ SourceSlides[1].shapes = <<N_inherits, N_auto>>
  /\ SourceSlides[2].shapes = <<N_textbox>>
  /\ Len(ret.slides[1].shapes) = 1 /\ ret.slides[1].shapes[1].type = S_rect
  /\ Len(ret.slides[2].shapes) = 1 /\ ret.slides[2].shapes[1].type = S_text

----------------------------------------------------------------------------
(* C7 *)

SolidRGB(fill) == fill.type = Enum("SOLID") /\ fill.color.kind = "rgb"

\* C7: Forward emits one Slide per source slide, in order, the i-th (zero-based)
\* with index i and id "slide-(i+1)"; Reverse appends one slide per Slide entry,
\* in order.
C7_SlideOrder ==
  /\ ReturnedSlides =>
       /\ Len(ret.slides) = Len(SourceSlides)
       /\ \A i \in 1..Len(SourceSlides) :
            /\ ret.slides[i].index = Whole(i - 1)
            /\ ret.slides[i].id = Str(<<"s", "l", "i", "d", "e", "-">> \o Numeral(i).cs)
            /\ SolidRGB(SourceSlides[i].background) =>
                 ret.slides[i].backgroundColor = rgb_to_hex(SourceSlides[i].background.color)
            /\ \A n \in 1..Len(ret.slides[i].shapes) :
                 \E j \in 1..Len(SourceSlides[i].shapes) :
                   ret.slides[i].shapes[n].id = Numeral(SourceSlides[i].shapes[j].shape_id)
  /\ (Built /\ ~IsRaise(built)) =>
       /\ Len(built.document.slides) = Len(GraphSlides)
       /\ \A k \in 1..Len(GraphSlides) :
            IsCanonicalHex(Get(GraphSlides[k], "backgroundColor", None)) =>
              /\ SolidRGB(built.document.slides[k].background)
              /\ rgb_to_hex(built.document.slides[k].background.color) = GraphSlides[k].backgroundColor
  /\ (graph # Nothing /\ prs # Nothing /\ pc \in {"build_slides", "build_shapes"}) =>
       Len(prs.slides) = IF pc = "build_slides" THEN idx ELSE idx + 1

\* two slides went through Reverse and Forward and came back in order
C7_Witness ==
  /\ ReturnedSlides /\ graph # Nothing /\ Len(GraphSlides) = 2
  /\ Len(ret.slides) = 2
  /\ ret.slides[1].backgroundColor = Grey(1) /\ ret.slides[2].backgroundColor = Grey(2)
  /\ ret.slides[2].index = Whole(1)

----------------------------------------------------------------------------
(* C8 *)

\* the emitted text shape e takes its style from font, and the defaults for what
\* font does not set
StyleFrom(font, e) ==
  /\ e.fontSize = IF font.size = None THEN Whole(16) ELSE Q(font.size.emu, 12700)
  /\ IF font.name = None THEN "fontFamily" \notin DOMAIN e
     ELSE "fontFamily" \in DOMAIN e /\ e.fontFamily = font.name
  /\ e.fill = IF font.color.kind = "rgb" THEN rgb_to_hex(font.color) ELSE S_white
  /\ IsSubstr(S_bold.cs, e.fontStyle.cs) = (font.bold = Bool(TRUE))
  /\ IsSubstr(S_italic.cs, e.fontStyle.cs) = (font.italic = Bool(TRUE))

\* C8: the font properties of a text Shape come from the font of the first run of
\* the first paragraph whenever that paragraph has a run, and from the paragraph
\* font only when it has none.
C8_FontPrecedence ==
  ReturnedSlides =>
    \A i \in 1..Len(SourceSlides) : \A j \in 1..Len(SourceSlides[i].shapes) :
      LET sh == SourceSlides[i].shapes[j]
          para == sh.text_frame.paragraphs[1]
      IN (HasRegion(sh) /\ ~IsBlank(RegionText(sh)) /\ Positioned(sh)) =>
           /\ Entries(i, sh) # <<>>
           /\ AllEntries(i, sh, LAMBDA e :
                IF para.runs # <<>> THEN StyleFrom(para.runs[1].font, e)
                ELSE StyleFrom(para.font, e))

\* a run styled bold, 14 pt, red in a paragraph styled italic, 12 pt, blue
C8_Witness ==
  /\ ReturnedSlides /\ Len(SourceSlides) = 1 /\ Len(SourceSlides[1].shapes) = 1
  /\ HasRegion(SourceSlides[1].shapes[1])
  /\ LET para == SourceSlides[1].shapes[1].text_frame.paragraphs[1]
     IN /\ Len(para.runs) = 1
        /\ para.runs[1].font = Font(Pt(Whole(14)), Arial, Red, Bool(TRUE), None)
        /\ para.font = Font(Pt(Whole(12)), None, Blue, None, Bool(TRUE))
  /\ Len(ret.slides[1].shapes) = 1
  /\ ret.slides[1].shapes[1].fontSize = Whole(14)
  /\ ret.slides[1].shapes[1].fontStyle = S_bold
  /\ ret.slides[1].shapes[1].fill = Str(<<"#", "f", "f", "0", "0", "0", "0">>)

----------------------------------------------------------------------------
(* C9 *)

\* C9: every emitted Shape has type "rect" or "text"; a source shape with no
\* non-blank text region that is not an auto-shape contributes no entry, and a
\* slide of only such shapes yields a Slide with no shapes and no error.
C9_DropUnsupported ==
  /\ ReturnedSlides =>
       \A i \in 1..Len(SourceSlides) :
         /\ \A n \in 1..Len(ret.slides[i].shapes) : ret.slides[i].shapes[n].type \in {S_rect, S_text}
         /\ \A j \in 1..Len(SourceSlides[i].shapes) :
              ~Supported(SourceSlides[i].shapes[j]) => Entries(i, SourceSlides[i].shapes[j]) = <<>>
         /\ (\A j \in 1..Len(SourceSlides[i].shapes) : ~Supported(SourceSlides[i].shapes[j])) =>
              ret.slides[i].shapes = <<>>
  /\ (Returned /\ ~Unwalkable(pptx_bytes)) => "error" \notin DOMAIN ret

\* a slide holding only a picture came back as a Slide without shapes
C9_Witness ==
  /\ ReturnedSlides /\ Len(SourceSlides) = 1
  /\ SourceSlides[1].shapes = <<N_picture>>
  /\ Len(ret.slides) = 1 /\ ret.slides[1].shapes = <<>>

----------------------------------------------------------------------------
(* C10 *)

IsTextData(sh) == Get(sh, "type", S_rect) = S_text
IsShapeData(sh) == Get(sh, "type", S_rect) \in {S_rect, S_text}

\* a text shape whose lineHeight and fontSize are numbers and whose spacing the
\* document can hold (at most 1584 points)
Spaced(sh) ==
  /\ IsTextData(sh)
  /\ {"lineHeight", "fontSize"} \subseteq DOMAIN sh
  /\ IsNum(sh.lineHeight) /\ IsNum(sh.fontSize)
  /\ QLe(QMul(QMax(Whole(1), sh.lineHeight), sh.fontSize), Whole(1584))

----------------------------------------------------------------------------
(* C11 *)

\* C11: pixels_to_emu returns the integer native unit nearest to
\* (pixels / 96) * 914400: the result is within half a unit of the exact value.
C11_NearestUnit ==
  (pc = "done" /\ px_value # Nothing) =>
    /\ IsNum(px_emu) /\ px_emu.d = 1
    /\ Near(px_emu, QMul(px_value, Q(EMU_PER_INCH, PIXELS_PER_INCH)), Q(1, 2))

----------------------------------------------------------------------------
(* C12 *)

\* the shape `made` of the document carries the documented default for every
\* optional field the request shape sh leaves out
Defaulted(sh, made) ==
  IF sh.type = S_rect
  THEN "fill" \notin DOMAIN sh => made.fill = SolidFill(RGBColor(30, 41, 59))
  ELSE LET frame == made.text_frame
           para == frame.paragraphs[1]
           size == IF "fontSize" \in DOMAIN sh THEN sh.fontSize ELSE Whole(16)
       IN /\ "fontSize" \notin DOMAIN sh => para.font.size = Length(16 * 12700)
          /\ "fill" \notin DOMAIN sh => para.font.color = RGBColor(255, 255, 255)
          /\ "fontStyle" \notin DOMAIN sh =>
               para.font.bold = Bool(FALSE) /\ para.font.italic = Bool(FALSE)
          /\ "align" \notin DOMAIN sh => para.alignment = Enum("LEFT")
          /\ "vAlign" \notin DOMAIN sh => frame.vertical_anchor = Enum("TOP")
          /\ "lineHeight" \notin DOMAIN sh =>
               /\ IsLength(para.line_spacing)
               /\ Near(Q(para.line_spacing.emu, 12700), QMul(Q(11, 10), size), Q(1, 100))
          /\ "padding" \notin DOMAIN sh =>
               frame.margins = Margins(Length(0), Length(0), Length(0), Length(0))
          /\ "text" \notin DOMAIN sh => ParaText(para.runs) = <<>>

\* C12: for every request the save endpoint accepts, with any optional field of
\* a shape left out, the build succeeds, every omitted field takes its
\* documented default, and the shape built is the one a missing key gives.
C12_OmittedDefaults ==
  (request # Nothing /\ response # Nothing) =>
    /\ "success" \in DOMAIN response
    /\ ~IsRaise(built)
    /\ Len(built.document.slides) = Len(request.slides)
    /\ \A i \in 1..Len(request.slides) :
         /\ Len(built.document.slides[i].shapes) = Len(request.slides[i].shapes)
         /\ \A j \in 1..Len(request.slides[i].shapes) :
              /\ Defaulted(request.slides[i].shapes[j], built.document.slides[i].shapes[j])
              /\ built.document.slides[i].shapes[j] = build_shape(request.slides[i].shapes[j], j + 1)

====
